---- MODULE Spec2Model ----
(***************************************************************************)
(* Farmket: the catalog (Category, Product, ProductImage) and identity     *)
(* (User, SellerProfile, BuyerProfile) models of src/products/models.py    *)
(* and src/users/models.py, as state machines over the stored tables.      *)
(*                                                                         *)
(* Text (names, slugs, emails) is a sequence of one-character strings, so  *)
(* that slugify, the "-<counter>" suffix and normalize_email are computed  *)
(* character by character as the code computes them.                       *)
(***************************************************************************)
EXTENDS Integers, Sequences, FiniteSets, TLC

VARIABLES
    users,          \* table users: set of rows
    sellers,        \* table seller_profiles
    buyers,         \* table buyer_profiles
    categories,     \* table categories
    products,       \* table products
    images,         \* table product_images
    nextPk,         \* the auto-increment primary key of each table
    last,           \* outcome of the last call (what the caller observes)
    run,            \* history: the current run of same-base auto-slug creations
    procs,          \* concurrent Product.save requests in flight
    price,          \* fields of the Product instance whose derived prices are read
    discount_price

vars == <<users, sellers, buyers, categories, products, images, nextPk, last,
          run, procs, price, discount_price>>

(***************************************************************************)
(* Bounds                                                                  *)
(***************************************************************************)
MaxProducts == 3      \* product primary keys handed out in one behaviour
NumProcs == 2         \* concurrent Product.save requests
MaxUsers == 2         \* user primary keys handed out in one behaviour
MaxCategories == 3    \* category primary keys handed out in one behaviour
MaxImages == 1        \* image primary keys handed out in one behaviour
MaxCascadeUsers == 1      \* users created where all six tables are modelled
MaxCascadeProducts == 1   \* products created where all six tables are modelled
MaxCascadeCategories == 3 \* categories created where all six tables are modelled

\* pk of an instance that was never saved (Python None: "if self.pk" is false)
NoPk == 0

(***************************************************************************)
(* Text                                                                    *)
(***************************************************************************)
UpperLetters == <<"A", "B", "C", "D", "E", "F", "G", "H", "I", "J", "K", "L", "M",
                  "N", "O", "P", "Q", "R", "S", "T", "U", "V", "W", "X", "Y", "Z">>
LowerLetters == <<"a", "b", "c", "d", "e", "f", "g", "h", "i", "j", "k", "l", "m",
                  "n", "o", "p", "q", "r", "s", "t", "u", "v", "w", "x", "y", "z">>
Digits == {"0", "1", "2", "3", "4", "5", "6", "7", "8", "9"}

\* str.lower() of one ASCII character
LowerChar(c) ==
    LET at == { i \in DOMAIN UpperLetters : UpperLetters[i] = c }
    IN  IF at = {} THEN c ELSE LowerLetters[CHOOSE i \in at : TRUE]

Lower(s) == [i \in 1..Len(s) |-> LowerChar(s[i])]

\* \w of the regular expressions (ASCII letters, digits, underscore)
IsWordChar(c) ==
    \/ \E i \in DOMAIN UpperLetters : c = UpperLetters[i] \/ c = LowerLetters[i]
    \/ c \in Digits
    \/ c = "_"
\* \s and the characters str.strip() removes, for ASCII text: space, tab,
\* newline, carriage return, form feed, and (written raw, they have no
\* escape) the vertical tab 0x0B and the separators 0x1C, 0x1D, 0x1E, 0x1F
IsSpaceChar(c) == c \in {" ", "\t", "\n", "\r", "\f",
                         "", "", "", "", ""}
IsHyphen(c) == c = "-"

\* re.sub(r"[^\w\s-]", "", value)
DropOther(s) ==
    SelectSeq(s, LAMBDA c : IsWordChar(c) \/ IsSpaceChar(c) \/ IsHyphen(c))

\* re.sub(r"[-\s]+", "-", value): every maximal run of hyphens and spaces
\* becomes one hyphen
IsSeparator(c) == IsSpaceChar(c) \/ IsHyphen(c)

RECURSIVE SkipSeparators(_)
SkipSeparators(s) ==
    IF s # <<>> /\ IsSeparator(Head(s)) THEN SkipSeparators(Tail(s)) ELSE s

RECURSIVE CollapseRuns(_)
CollapseRuns(s) ==
    IF s = <<>> THEN <<>>
    ELSE IF IsSeparator(Head(s))
         THEN <<"-">> \o CollapseRuns(SkipSeparators(s))
         ELSE <<Head(s)>> \o CollapseRuns(Tail(s))

\* str.strip("-_")
RECURSIVE LStrip(_)
LStrip(s) ==
    IF s # <<>> /\ Head(s) \in {"-", "_"} THEN LStrip(Tail(s)) ELSE s

RECURSIVE RStrip(_)
RStrip(s) ==
    IF s # <<>> /\ s[Len(s)] \in {"-", "_"}
    THEN RStrip(SubSeq(s, 1, Len(s) - 1)) ELSE s

\* django.utils.text.slugify(value) for ASCII input
slugify(name) == RStrip(LStrip(CollapseRuns(DropOther(Lower(name)))))

DigitChar == <<"0", "1", "2", "3", "4", "5", "6", "7", "8", "9">>

\* str(counter) for counter >= 0
RECURSIVE Decimal(_)
Decimal(n) ==
    IF n < 10 THEN <<DigitChar[n + 1]>>
    ELSE Decimal(n \div 10) \o <<DigitChar[(n % 10) + 1]>>

\* f"{base_slug}-{counter}"
SuffixedSlug(base_slug, counter) == base_slug \o <<"-">> \o Decimal(counter)


(***************************************************************************)
(* Inputs                                                                  *)
(***************************************************************************)
\* " Ap" and "ap!" both slugify to "ap"; "!" slugifies to the empty string
ProductNames == { <<" ", "A", "p">>, <<"a", "p", "!">>, <<"!">> }

\* slugs typed by hand into the slug field
ManualSlugs == { <<"a", "p", "-", "1">> }

NoRun == [base |-> <<>>, slugs |-> <<>>]
NoCall == [op |-> "none"]

(***************************************************************************)
(* Product.save: slug assignment                                           *)
(***************************************************************************)
\* mutant: the query without .exclude(pk=self.pk)
SlugConflictOwnRowCounts(table, slug, pk) ==
    \E r \in table : r.slug = slug

\* Product.objects.filter(slug=slug) [.exclude(pk=self.pk) if self.pk] .exists()
SlugConflict(table, slug, pk) ==
    \E r \in table : r.slug = slug /\ (pk # NoPk => r.pk # pk)

(***************************************************************************)
(* The storage layer under super().save(): unique and foreign keys         *)
(***************************************************************************)
\* mutant: Product.slug declared without unique=True
ProductUniqueViolationSkuOnly(table, row) ==
    \E r \in table : r.pk # row.pk /\ r.sku = row.sku

\* unique=True on Product.slug and Product.sku
ProductUniqueViolation(table, row) ==
    \E r \in table : r.pk # row.pk /\ (r.slug = row.slug \/ r.sku = row.sku)

\* the ForeignKeys seller and category must name stored rows
ProductFkViolation(row) ==
    \/ row.seller \notin { s.user : s \in sellers }
    \/ row.category \notin { c.pk : c \in categories }

\* INSERT (no pk yet) or UPDATE of the row with the instance's pk
ProductRowToWrite(inst) ==
    IF inst.pk = NoPk THEN [inst EXCEPT !.pk = nextPk.product] ELSE inst

ProductWrite(table, row) == { r \in table : r.pk # row.pk } \cup { row }

\* slugs "base", "base-1", "base-2", ...
IsFamilySlug(base, slug) ==
    \/ slug = base
    \/ \E k \in 1..(MaxProducts + 1) : slug = SuffixedSlug(base, k)

\* history of the current run of consecutive creations whose names slugify
\* to one base, begun when no stored row held a slug of that base's family
RunAfterCreate(inst, row, ok) ==
    LET base == slugify(inst.name)
    IN  IF ~ok \/ inst.slug # <<>> THEN NoRun
        ELSE IF run.slugs # <<>> /\ run.base = base
             THEN [run EXCEPT !.slugs = Append(@, row.slug)]
        ELSE IF \A r \in products : ~IsFamilySlug(base, r.slug)
             THEN [base |-> base, slugs |-> <<row.slug>>]
        ELSE NoRun

(***************************************************************************)
(* Rows stored before a behaviour of the product specifications starts     *)
(***************************************************************************)
SeedUser == [pk |-> 1, email |-> <<"a", "@", "b">>, is_staff |-> "False",
             is_superuser |-> "False", is_active |-> "True"]
SeedSeller == [user |-> 1, business_name |-> <<"a">>]
SeedCategory == [pk |-> 1, name |-> <<"a">>, slug |-> <<"a">>, parent |-> NoPk]

(***************************************************************************)
(* Product.save(): every query and the row write is one step.  The request *)
(* p holds the local variables of its call; between two steps of one call  *)
(* the steps of other requests can run (no lock, no transaction).          *)
(***************************************************************************)
Procs == 1..NumProcs
Idle == [pc |-> "idle"]

\* mutant: counter = 0
SaveEntryCounterFromZero(op, inst) ==
    [pc |-> IF inst.slug = <<>> THEN "probe" ELSE "write",
     op |-> op, inst |-> inst, slug_in |-> inst.slug,
     base_slug |-> slugify(inst.name),
     slug |-> IF inst.slug = <<>> THEN slugify(inst.name) ELSE inst.slug,
     counter |-> 0, seen |-> <<>>, same_slug |-> FALSE]

\* mutant: the slug is derived from the name on every save
SaveEntryAlwaysDerives(op, inst) ==
    [pc |-> "probe",
     op |-> op, inst |-> inst, slug_in |-> inst.slug,
     base_slug |-> slugify(inst.name),
     slug |-> slugify(inst.name),
     counter |-> 1, seen |-> <<>>, same_slug |-> FALSE]

\* lines 124-131: "if not self.slug" and the locals base_slug, slug, counter
\* before the first exists().  History: seen tells for each exists() so far
\* whether a row other than the instance's own held the candidate, same_slug
\* whether the row written carries the slug its stored row held before
SaveEntry(op, inst) ==
    [pc |-> IF inst.slug = <<>> THEN "probe" ELSE "write",
     op |-> op, inst |-> inst, slug_in |-> inst.slug,
     base_slug |-> slugify(inst.name),
     slug |-> IF inst.slug = <<>> THEN slugify(inst.name) ELSE inst.slug,
     counter |-> 1, seen |-> <<>>, same_slug |-> FALSE]

\* save() is called on inst by request p
SaveBegin(p, op, inst) ==
    /\ procs[p].pc = "idle"
    /\ procs' = [procs EXCEPT ![p] = SaveEntry(op, inst)]
    /\ UNCHANGED <<users, sellers, buyers, categories, products, images,
                   nextPk, last, run, price, discount_price>>

\* Product(...).save() on a new instance
ProductCreate(p, name, slug, sku, seller, category) ==
    SaveBegin(p, "create",
              [pk |-> NoPk, name |-> name, slug |-> slug, sku |-> sku,
               seller |-> seller, category |-> category])

\* load a stored product, edit its name and slug fields, save()
ProductResave(p, pk, name, slug) ==
    \E r \in products :
        /\ r.pk = pk
        /\ SaveBegin(p, "resave", [r EXCEPT !.name = name, !.slug = slug])

\* lines 132-138: one evaluation of slug_conflict_qs.exists()
SaveProbe(p) ==
    /\ procs[p].pc = "probe"
    /\ LET pr == procs[p]
           held == \E r \in products : r.pk # pr.inst.pk /\ r.slug = pr.slug
           looked == [pr EXCEPT !.seen = Append(pr.seen, held)]
       IN  procs' = [procs EXCEPT ![p] =
              IF SlugConflict(products, pr.slug, pr.inst.pk)
              THEN [looked EXCEPT !.slug = SuffixedSlug(pr.base_slug, pr.counter),
                                  !.counter = pr.counter + 1]
              ELSE [looked EXCEPT !.inst.slug = pr.slug, !.pc = "write"]]
    /\ UNCHANGED <<users, sellers, buyers, categories, products, images,
                   nextPk, last, run, price, discount_price>>

\* mutant: the storage error is swallowed and save() returns normally
SaveOutcomeSwallowed(ok) == "done"

\* how save() ends: it returns, or the storage layer's error propagates
SaveOutcome(ok) == IF ok THEN "done" ELSE "raised"

\* line 139: super().save(), the INSERT or UPDATE of the row
SaveWrite(p) ==
    /\ procs[p].pc = "write"
    /\ LET pr == procs[p]
           row == ProductRowToWrite(pr.inst)
           ok == ~ProductUniqueViolation(products, row)
                 /\ ~ProductFkViolation(row)
       IN  /\ products' = IF ok THEN ProductWrite(products, row) ELSE products
           /\ nextPk' = IF ok /\ pr.inst.pk = NoPk
                        THEN [nextPk EXCEPT !.product = @ + 1] ELSE nextPk
           /\ procs' = [procs EXCEPT ![p] =
                 [pr EXCEPT !.pc = SaveOutcome(ok),
                            !.inst = IF ok THEN row ELSE pr.inst,
                            !.same_slug =
                                ok /\ \E r \in products :
                                         r.pk = pr.inst.pk /\ r.slug = row.slug]]
           /\ last' = [op |-> pr.op, ok |-> ok, p |-> p]
           /\ run' = IF pr.op = "create"
                      THEN RunAfterCreate([pr.inst EXCEPT !.slug = pr.slug_in],
                                          row, ok)
                      ELSE NoRun
    /\ UNCHANGED <<users, sellers, buyers, categories, images,
                   price, discount_price>>

\* the caller has the outcome of save(); request p can make its next call
SaveReturn(p) ==
    /\ procs[p].pc \in {"done", "raised"}
    /\ procs' = [procs EXCEPT ![p] = Idle]
    /\ UNCHANGED <<users, sellers, buyers, categories, products, images,
                   nextPk, last, run, price, discount_price>>

\* no save() is between its entry and its return
Quiet == \A p \in DOMAIN procs : procs[p].pc = "idle"

(***************************************************************************)
(* UserManager.create_user / create_superuser                              *)
(*                                                                         *)
(* An optional value is a set: {} is None, {v} is the value v.  The flags  *)
(* passed in **extra_fields are "True", "False" or "None".                 *)
(***************************************************************************)
None == {}
Some(v) == { v }
ValueOf(opt) == CHOOSE v \in opt : TRUE

\* Python truthiness of an optional text: "not email"
Falsy(email) == email = None \/ ValueOf(email) = <<>>

\* mutant: only a missing email is refused ("if email is None")
EmailMissingOnlyNone(email) == email = None

\* line 37: if not email
EmailMissing(email) == Falsy(email)

\* str.strip()
RECURSIVE LStripSpace(_)
LStripSpace(s) ==
    IF s # <<>> /\ IsSpaceChar(Head(s)) THEN LStripSpace(Tail(s)) ELSE s

RECURSIVE RStripSpace(_)
RStripSpace(s) ==
    IF s # <<>> /\ IsSpaceChar(s[Len(s)])
    THEN RStripSpace(SubSeq(s, 1, Len(s) - 1)) ELSE s

\* index of the last "@" of s, 0 when there is none (str.rsplit("@", 1))
LastAt(s) ==
    LET at == { i \in 1..Len(s) : s[i] = "@" }
    IN  IF at = {} THEN 0 ELSE CHOOSE i \in at : \A j \in at : j <= i

\* BaseUserManager.normalize_email: the domain part is lower-cased; a value
\* without "@" is returned as it is
normalize_email(email) ==
    LET t == RStripSpace(LStripSpace(email))
        i == LastAt(t)
    IN  IF i = 0 THEN email
        ELSE SubSeq(t, 1, i - 1) \o <<"@">> \o Lower(SubSeq(t, i + 1, Len(t)))

\* dict.setdefault(key, value)
SetDefault(fields, key, value) ==
    IF key \in DOMAIN fields THEN fields ELSE fields @@ (key :> value)

\* dict.get(key): "None" when the key is absent
Get(fields, key) == IF key \in DOMAIN fields THEN fields[key] ELSE "None"

\* field defaults of the User model
UserDefaults ==
    [is_staff |-> "False", is_superuser |-> "False", is_active |-> "True"]

\* self.model(email=email, **extra_fields); set_password(password)
NewUser(email, password, extra_fields) ==
    [pk |-> NoPk, email |-> email,
     is_staff |-> Get(extra_fields @@ UserDefaults, "is_staff"),
     is_superuser |-> Get(extra_fields @@ UserDefaults, "is_superuser"),
     is_active |-> Get(extra_fields @@ UserDefaults, "is_active"),
     usable_password |-> password # None]

\* user.save(): email is unique, the boolean columns are NOT NULL
UserWriteViolation(table, row) ==
    \/ \E u \in table : u.pk # row.pk /\ u.email = row.email
    \/ "None" \in { row.is_staff, row.is_superuser, row.is_active }

\* the outcome of create_user: the error raised ("none" when it returns) and
\* the row it saves
CreateUserResult(email, password, extra_fields) ==
    IF EmailMissing(email)
    THEN [err |-> "Users must have an email address", row |-> None]
    ELSE LET row == [NewUser(normalize_email(ValueOf(email)), password,
                             extra_fields) EXCEPT !.pk = nextPk.user]
         IN  IF UserWriteViolation(users, row)
             THEN [err |-> "IntegrityError", row |-> None]
             ELSE [err |-> "none", row |-> Some(row)]

\* mutant: the is_superuser check is missing
SuperuserFlagErrorStaffOnly(fields) ==
    IF Get(fields, "is_staff") # "True"
    THEN "Superuser must have is_staff=True."
    ELSE "none"

\* lines 52-55: the two "is not True" checks
SuperuserFlagError(fields) ==
    IF Get(fields, "is_staff") # "True"
    THEN "Superuser must have is_staff=True."
    ELSE IF Get(fields, "is_superuser") # "True"
         THEN "Superuser must have is_superuser=True."
         ELSE "none"

\* lines 48-50: the three setdefault calls
SuperuserFields(extra_fields) ==
    SetDefault(SetDefault(SetDefault(extra_fields, "is_staff", "True"),
                          "is_superuser", "True"),
               "is_active", "True")

CreateSuperuserResult(email, password, extra_fields) ==
    LET fields == SuperuserFields(extra_fields)
    IN  IF SuperuserFlagError(fields) # "none"
        THEN [err |-> SuperuserFlagError(fields), row |-> None]
        ELSE CreateUserResult(email, password, fields)

\* the caller explicitly passed is_staff or is_superuser other than True
ExplicitNonTrue(extra_fields) ==
    \E k \in {"is_staff", "is_superuser"} :
        k \in DOMAIN extra_fields /\ extra_fields[k] # "True"

\* what a manager call leaves behind
UserCall(op, res, email, extra_fields) ==
    /\ users' = IF res.row = None THEN users ELSE users \cup res.row
    /\ nextPk' = IF res.row = None THEN nextPk
                 ELSE [nextPk EXCEPT !.user = @ + 1]
    /\ last' = [op |-> op, ok |-> res.err = "none", err |-> res.err,
                pk |-> IF res.row = None THEN NoPk ELSE ValueOf(res.row).pk,
                empty_email |-> Falsy(email),
                explicit_non_true |-> ExplicitNonTrue(extra_fields)]
    /\ UNCHANGED <<sellers, buyers, categories, products, images, run, procs,
                   price, discount_price>>

create_user(email, password, extra_fields) ==
    UserCall("create_user", CreateUserResult(email, password, extra_fields),
             email, extra_fields)

create_superuser(email, password, extra_fields) ==
    UserCall("create_superuser",
             CreateSuperuserResult(email, password, extra_fields),
             email, extra_fields)

(***************************************************************************)
(* Category.save                                                           *)
(***************************************************************************)
\* used by the mutant below: the first of slug, base-counter, base-(counter+1),
\* ... that no other row of the table holds
RECURSIVE SuffixedUntilFree(_, _, _, _, _)
SuffixedUntilFree(table, pk, base_slug, slug, counter) ==
    IF SlugConflict(table, slug, pk)
    THEN SuffixedUntilFree(table, pk, base_slug,
                           SuffixedSlug(base_slug, counter), counter + 1)
    ELSE slug

\* mutant: the collision suffix of Product.save applied to categories
AssignCategorySlugSuffixed(table, inst) ==
    IF inst.slug = <<>>
    THEN SuffixedUntilFree(table, inst.pk, slugify(inst.name),
                           slugify(inst.name), 1)
    ELSE inst.slug

\* lines 56-57: if not self.slug: self.slug = slugify(self.name)
AssignCategorySlug(table, inst) ==
    IF inst.slug = <<>> THEN slugify(inst.name) ELSE inst.slug

\* unique=True on Category.name and Category.slug
CategoryUniqueViolation(table, row) ==
    \E c \in table : c.pk # row.pk /\ (c.name = row.name \/ c.slug = row.slug)

\* the ForeignKey parent is null or names a category stored once the row is
\* written: a stored category, or the row itself
CategoryFkViolation(row) ==
    /\ row.parent # NoPk
    /\ row.parent \notin { c.pk : c \in categories } \cup { row.pk }

\* Category.save(): assign the slug, then super().save()
CategorySave(op, inst) ==
    LET slugged == [inst EXCEPT !.slug = AssignCategorySlug(categories, inst)]
        row == IF inst.pk = NoPk
               THEN [slugged EXCEPT !.pk = nextPk.category] ELSE slugged
        ok == ~CategoryUniqueViolation(categories, row)
              /\ ~CategoryFkViolation(row)
    IN  /\ categories' = IF ok
                         THEN { c \in categories : c.pk # row.pk } \cup { row }
                         ELSE categories
        /\ nextPk' = IF ok /\ inst.pk = NoPk
                     THEN [nextPk EXCEPT !.category = @ + 1] ELSE nextPk
        /\ last' = [op |-> op, ok |-> ok,
                    err |-> IF ok THEN "none" ELSE "IntegrityError",
                    pk |-> IF ok THEN row.pk ELSE inst.pk,
                    name |-> inst.name, slug_in |-> inst.slug]
        /\ UNCHANGED <<users, sellers, buyers, products, images, run, procs,
                       price, discount_price>>

\* Category(...).save() on a new instance
CategoryCreate(name, slug, parent) ==
    CategorySave("create_category",
                 [pk |-> NoPk, name |-> name, slug |-> slug, parent |-> parent])

\* load a stored category, edit its name and slug fields, save()
CategoryResave(pk, name, slug) ==
    \E c \in categories :
       /\ c.pk = pk
       /\ CategorySave("resave_category",
                       [c EXCEPT !.name = name, !.slug = slug])

(***************************************************************************)
(* Profiles and images: rows with foreign keys, no save() of their own     *)
(***************************************************************************)
\* SellerProfile(user=..., business_name=...).save(); the user is the pk
SellerCreate(user, business_name) ==
    LET row == [user |-> user, business_name |-> business_name]
        ok == /\ user \in { u.pk : u \in users }
              /\ ~\E x \in sellers :
                     x.user # user /\ x.business_name = business_name
    IN  /\ sellers' = IF ok THEN { x \in sellers : x.user # user } \cup { row }
                      ELSE sellers
        /\ last' = [op |-> "create_seller", ok |-> ok]
        /\ UNCHANGED <<users, buyers, categories, products, images, nextPk,
                       run, procs, price, discount_price>>

\* BuyerProfile(user=...).save(); the user is the pk
BuyerCreate(user) ==
    LET ok == user \in { u.pk : u \in users }
    IN  /\ buyers' = IF ok THEN buyers \cup { [user |-> user] } ELSE buyers
        /\ last' = [op |-> "create_buyer", ok |-> ok]
        /\ UNCHANGED <<users, sellers, categories, products, images, nextPk,
                       run, procs, price, discount_price>>

\* ProductImage(product=...).save()
ImageCreate(product) ==
    LET ok == product \in { r.pk : r \in products }
    IN  /\ images' = IF ok
                     THEN images \cup { [pk |-> nextPk.image,
                                         product |-> product] }
                     ELSE images
        /\ nextPk' = IF ok THEN [nextPk EXCEPT !.image = @ + 1] ELSE nextPk
        /\ last' = [op |-> "create_image", ok |-> ok]
        /\ UNCHANGED <<users, sellers, buyers, categories, products, run,
                       procs, price, discount_price>>

(***************************************************************************)
(* delete(): the rows collected through on_delete=CASCADE                  *)
(***************************************************************************)
\* mutant: Category.parent cascades one level only
SubcategoriesDirectOnly(pks) ==
    pks \cup { c.pk : c \in { x \in categories : x.parent \in pks } }

\* Category.parent: the categories below those of pks at any depth, and pks
\* themselves
RECURSIVE Subcategories(_)
Subcategories(pks) ==
    LET more == pks \cup { c.pk : c \in { x \in categories : x.parent \in pks } }
    IN  IF more = pks THEN pks ELSE Subcategories(more)

\* Product.category and Product.seller: the products of the collected
\* categories and seller profiles
ProductsCollected(cats, sels) ==
    { r.pk : r \in { x \in products : x.category \in cats \/ x.seller \in sels } }

\* delete the given rows and all that cascades from them
Cascade(op, dUsers, dSellers, dBuyers, dCats, dProducts, dImages) ==
    LET sels == dSellers \cup { x.user : x \in { y \in sellers : y.user \in dUsers } }
        buys == dBuyers \cup { x.user : x \in { y \in buyers : y.user \in dUsers } }
        cats == Subcategories(dCats)
        prods == dProducts \cup ProductsCollected(cats, sels)
        imgs == dImages \cup { i.pk : i \in { j \in images : j.product \in prods } }
    IN  /\ users' = { u \in users : u.pk \notin dUsers }
        /\ sellers' = { x \in sellers : x.user \notin sels }
        /\ buyers' = { x \in buyers : x.user \notin buys }
        /\ categories' = { c \in categories : c.pk \notin cats }
        /\ products' = { r \in products : r.pk \notin prods }
        /\ images' = { i \in images : i.pk \notin imgs }
        /\ last' = [op |-> op, ok |-> TRUE,
                    removed |-> [users |-> Cardinality(users \ users'),
                                 sellers |-> Cardinality(sellers \ sellers'),
                                 buyers |-> Cardinality(buyers \ buyers'),
                                 categories |->
                                     Cardinality(categories \ categories'),
                                 products |-> Cardinality(products \ products'),
                                 images |-> Cardinality(images \ images')]]
        /\ run' = NoRun
        /\ UNCHANGED <<nextPk, procs, price, discount_price>>

UserDelete(pk) ==
    /\ \E u \in users : u.pk = pk
    /\ Cascade("delete_user", {pk}, {}, {}, {}, {}, {})

SellerDelete(user) ==
    /\ \E x \in sellers : x.user = user
    /\ Cascade("delete_seller", {}, {user}, {}, {}, {}, {})

BuyerDelete(user) ==
    /\ \E x \in buyers : x.user = user
    /\ Cascade("delete_buyer", {}, {}, {user}, {}, {}, {})

CategoryDelete(pk) ==
    /\ \E c \in categories : c.pk = pk
    /\ Cascade("delete_category", {}, {}, {}, {pk}, {}, {})

ProductDelete(pk) ==
    /\ \E r \in products : r.pk = pk
    /\ Cascade("delete_product", {}, {}, {}, {}, {pk}, {})

ImageDelete(pk) ==
    /\ \E i \in images : i.pk = pk
    /\ Cascade("delete_image", {}, {}, {}, {}, {}, {pk})

(***************************************************************************)
(* Sequential catalog of one seller and one category                       *)
(***************************************************************************)
\* the skus a caller may pass: a fresh one, or one already taken
SkuChoices == { nextPk.product } \cup { r.sku : r \in products }
\* the name a caller may leave in the field on re-save: kept, or edited
ResaveNames(r) == { r.name, <<"a", "p", "!">> }
\* the slug values a caller may leave in the field on re-save
ResaveSlugs(r) == { r.slug, <<>> } \cup ManualSlugs

InitSlug ==
    /\ users = { SeedUser }
    /\ sellers = { SeedSeller }
    /\ buyers = {}
    /\ categories = { SeedCategory }
    /\ products = {}
    /\ images = {}
    /\ nextPk = [user |-> 2, category |-> 2, product |-> 1, image |-> 1]
    /\ last = NoCall
    /\ run = NoRun
    /\ procs = <<Idle>>
    /\ price = 0
    /\ discount_price = {}

\* one caller: each call runs from its entry to its return before the next
NextSlug ==
    \/ /\ nextPk.product <= MaxProducts
       /\ \E name \in ProductNames, slug \in {<<>>} \cup ManualSlugs,
             sku \in SkuChoices :
             ProductCreate(1, name, slug, sku, 1, 1)
    \/ \E r \in products :
          \E name \in ResaveNames(r), slug \in ResaveSlugs(r) :
             ProductResave(1, r.pk, name, slug)
    \/ SaveProbe(1)
    \/ SaveWrite(1)
    \/ SaveReturn(1)
    \/ /\ Quiet
       /\ \E r \in products : ProductDelete(r.pk)

SpecSlug == InitSlug /\ [][NextSlug]_vars

(***************************************************************************)
(* Concurrent requests: each makes one call of Product.save; deletions     *)
(* run between their steps                                                 *)
(***************************************************************************)
\* a product stored before the concurrent requests start
SeedProduct == [pk |-> 1, name |-> <<"a", "p", "!">>, slug |-> <<"a", "p">>,
                sku |-> 1, seller |-> 1, category |-> 1]

\* the sku request p passes: its own, so that only slugs can collide
ProcSku(p) == MaxProducts + 1 + p

InitRace ==
    /\ users = { SeedUser }
    /\ sellers = { SeedSeller }
    /\ buyers = {}
    /\ categories = { SeedCategory }
    /\ products \in { {}, { SeedProduct } }
    /\ images = {}
    /\ nextPk = [user |-> 2, category |-> 2,
                 product |-> Cardinality(products) + 1, image |-> 1]
    /\ last = NoCall
    /\ run = NoRun
    /\ procs = [p \in Procs |-> Idle]
    /\ price = 0
    /\ discount_price = {}

NextRace ==
    \/ \E p \in Procs, name \in ProductNames, slug \in {<<>>} \cup ManualSlugs :
          ProductCreate(p, name, slug, ProcSku(p), 1, 1)
    \/ \E p \in Procs, r \in products :
          \E slug \in {r.slug, <<>>} : ProductResave(p, r.pk, r.name, slug)
    \/ \E p \in Procs : SaveProbe(p)
    \/ \E p \in Procs : SaveWrite(p)
    \/ \E r \in products : ProductDelete(r.pk)

SpecRace == InitRace /\ [][NextRace]_vars

(***************************************************************************)
(* Accounts created through the manager                                    *)
(***************************************************************************)
\* no email, "", " ", "a@B" and "a@b" (equal once normalized)
UserEmails ==
    { None, Some(<<>>), Some(<<" ">>), Some(<<"a", "@", "B">>),
      Some(<<"a", "@", "b">>) }

Passwords == { None, Some("x") }

FlagValues == { "True", "False", "None" }

\* the keyword arguments a caller may pass for the two role flags
ExtraFieldChoices ==
    UNION { [K -> FlagValues] : K \in SUBSET {"is_staff", "is_superuser"} }

\* the state after the tables are created
Init ==
    /\ users = {}
    /\ sellers = {}
    /\ buyers = {}
    /\ categories = {}
    /\ products = {}
    /\ images = {}
    /\ nextPk = [user |-> 1, category |-> 1, product |-> 1, image |-> 1]
    /\ last = NoCall
    /\ run = NoRun
    /\ procs = <<Idle>>
    /\ price = 0
    /\ discount_price = {}

NextUsers ==
    \/ /\ nextPk.user <= MaxUsers
       /\ \E email \in UserEmails, password \in Passwords,
             extra_fields \in ExtraFieldChoices :
             create_user(email, password, extra_fields)
    \/ /\ nextPk.user <= MaxUsers
       /\ \E email \in UserEmails, password \in Passwords,
             extra_fields \in ExtraFieldChoices :
             create_superuser(email, password, extra_fields)
    \/ \E u \in users : UserDelete(u.pk)

SpecUsers == Init /\ [][NextUsers]_vars

(***************************************************************************)
(* Categories                                                              *)
(***************************************************************************)
\* "Ap" and "ap!" both slugify to "ap"
CategoryNames == { <<"A", "p">>, <<"a", "p", "!">>, <<"b">> }

\* slugs typed by hand into the slug field
ManualCategorySlugs == { <<"a", "p">> }

\* the parents a caller may name: none, a primary key handed out so far, or
\* the next one (the key the new row itself gets)
ParentChoices == { NoPk } \cup 1..nextPk.category

NextCategory ==
    \/ /\ nextPk.category <= MaxCategories
       /\ \E name \in CategoryNames,
             slug \in {<<>>} \cup ManualCategorySlugs,
             parent \in ParentChoices :
             CategoryCreate(name, slug, parent)
    \/ \E c \in categories :
          \E name \in CategoryNames,
             slug \in {c.slug, <<>>} \cup ManualCategorySlugs :
             CategoryResave(c.pk, name, slug)
    \/ \E c \in categories : CategoryDelete(c.pk)

SpecCategory == Init /\ [][NextCategory]_vars

(***************************************************************************)
(* All six tables: creations and deletions                                 *)
(***************************************************************************)
\* one account email and one sku: at most one user and one product are
\* stored at a time, and a later one can be created once they are deleted
CascadeEmail == Some(<<"a", "@", "b">>)
CascadeSku == 1
CascadeProductNames == { <<"a", "p", "!">> }

\* business and category names are fresh ones, numbered by the primary key
\* of the row
FreshBusinessName(user) == <<"b">> \o Decimal(user)
FreshCategoryName == <<"a">> \o Decimal(nextPk.category)

\* the users and products a caller may name as the target of a foreign key:
\* every primary key handed out so far, whether its row is still stored or not
UserChoices == 1..(nextPk.user - 1)
ProductChoices == 1..(nextPk.product - 1)

\* the category created last, stored or not: the parent a new category may
\* name (none before the first one), and the category of a new product. A
\* product is created at any moment, so it may be in any category of a chain
\* category <- subcategory <- sub-subcategory.
LatestCategory == nextPk.category - 1
CascadeParentChoices == { NoPk, LatestCategory }
CascadeCategoryChoices == { LatestCategory } \ { NoPk }

\* one caller makes the creations, each call from its entry to its return
\* before the next; deletions also run between the steps of a Product.save
NextCascade ==
    \/ /\ Quiet
       /\ nextPk.user <= MaxCascadeUsers
       /\ create_user(CascadeEmail, Some("x"), <<>>)
    \/ /\ Quiet
       /\ \E user \in UserChoices : SellerCreate(user, FreshBusinessName(user))
    \/ /\ Quiet
       /\ \E user \in UserChoices : BuyerCreate(user)
    \/ /\ Quiet
       /\ nextPk.category <= MaxCascadeCategories
       /\ \E parent \in CascadeParentChoices :
             CategoryCreate(FreshCategoryName, <<>>, parent)
    \/ /\ nextPk.product <= MaxCascadeProducts
       /\ \E name \in CascadeProductNames, seller \in UserChoices,
             category \in CascadeCategoryChoices :
             ProductCreate(1, name, <<>>, CascadeSku, seller, category)
    \/ SaveProbe(1)
    \/ SaveWrite(1)
    \/ SaveReturn(1)
    \/ /\ Quiet
       /\ nextPk.image <= MaxImages
       /\ \E product \in ProductChoices : ImageCreate(product)
    \/ \E u \in users : UserDelete(u.pk)
    \/ \E x \in sellers : SellerDelete(x.user)
    \/ \E x \in buyers : BuyerDelete(x.user)
    \/ \E c \in categories : CategoryDelete(c.pk)
    \/ \E r \in products : ProductDelete(r.pk)
    \/ \E i \in images : ImageDelete(i.pk)

SpecCascade == Init /\ [][NextCascade]_vars

(***************************************************************************)
(* Derived prices of a Product instance                                    *)
(*                                                                         *)
(* Amounts are in hundredths (price 100.00 is 10000); a percentage is in   *)
(* hundredths of a percent (25.00 is 2500).                                *)
(***************************************************************************)
\* Python truthiness of an optional Decimal: None and 0 are false
Truthy(amount) == amount # None /\ ValueOf(amount) # 0

\* n / d rounded to the nearest integer, ties to the even one (the rounding
\* of round(Decimal, 2)), for d > 0
RoundHalfEven(n, d) ==
    LET q == n \div d
        r == n - q * d
    IN  IF 2 * r < d THEN q
        ELSE IF 2 * r > d THEN q + 1
        ELSE IF q % 2 = 0 THEN q ELSE q + 1

\* Product.discount_percentage
discount_percentage(p, dp) ==
    IF Truthy(dp) /\ p > 0
    THEN RoundHalfEven((p - ValueOf(dp)) * 10000, p)
    ELSE 0

\* Product.final_price
final_price(p, dp) == IF Truthy(dp) THEN ValueOf(dp) ELSE p

\* 0.00, 0.01, 0.03, 0.07, 75.00, 100.00 and 120.00
Prices == { 0, 1, 3, 7, 7500, 10000, 12000 }

InitPrice ==
    /\ users = {}
    /\ sellers = {}
    /\ buyers = {}
    /\ categories = {}
    /\ products = {}
    /\ images = {}
    /\ nextPk = [user |-> 1, category |-> 1, product |-> 1, image |-> 1]
    /\ last = NoCall
    /\ run = NoRun
    /\ procs = <<>>
    /\ price \in Prices
    /\ discount_price \in { None } \cup { Some(v) : v \in Prices }

\* read product.final_price
ReadFinalPrice ==
    /\ last' = [op |-> "final_price",
                value |-> final_price(price, discount_price)]
    /\ UNCHANGED <<users, sellers, buyers, categories, products, images,
                   nextPk, run, procs, price, discount_price>>

\* read product.discount_percentage
ReadDiscountPercentage ==
    /\ last' = [op |-> "discount_percentage",
                value |-> discount_percentage(price, discount_price)]
    /\ UNCHANGED <<users, sellers, buyers, categories, products, images,
                   nextPk, run, procs, price, discount_price>>

NextPrice == ReadFinalPrice \/ ReadDiscountPercentage

SpecPrice == InitPrice /\ [][NextPrice]_vars

(***************************************************************************)
(* Properties of Product.save called by one caller (SpecSlug)              *)
(***************************************************************************)
ProductRow(pk) == CHOOSE r \in products : r.pk = pk

\* the last call to end was a save() that returned, and nothing was stored
\* or deleted since; procs[last.p] holds that call
JustReturned ==
    /\ last.op \in {"create", "resave"} /\ last.ok
    /\ procs[last.p].pc = "done"

\* C1: in a run of consecutive creations with an empty slug whose names all
\* slugify to one base, begun when no stored product held base or base-k,
\* the first product gets base and the k-th (k >= 2) gets base-(k-1).
C1_SlugsInCreationOrder ==
    \A k \in 1..Len(run.slugs) :
        run.slugs[k] = IF k = 1 THEN run.base
                       ELSE run.base \o <<"-">> \o Decimal(k - 1)

\* three products created in a row from names that slugify to "ap"
C1_Witness ==
    /\ Len(run.slugs) = 3
    /\ run.base = <<"a", "p">>
    /\ \A k \in 1..3 : \E r \in products : r.slug = run.slugs[k]

\* C2: no two stored products share a slug, and a slug that Product.save
\* has just derived is held by no other stored product.
C2_ProductSlugsUnique ==
    /\ \A r1, r2 \in products : r1.slug = r2.slug => r1 = r2
    /\ (JustReturned /\ procs[last.p].slug_in = <<>>)
          => \A r \in products :
                r.pk # procs[last.p].inst.pk
                   => r.slug # ProductRow(procs[last.p].inst.pk).slug

\* a derived slug was written while two other products, one of them holding
\* a hand-typed slug, are stored
C2_Witness ==
    /\ JustReturned
    /\ last.op = "create" /\ procs[last.p].slug_in = <<>>
    /\ Cardinality(products) = 3
    /\ ProductRow(procs[last.p].inst.pk).slug = <<"a", "p", "-", "2">>

\* C3: the row write of a re-save that succeeds, made with the slug field
\* holding the non-empty slug the product's row stores, leaves that row's
\* slug unchanged.
C3_ResaveKeepsSetSlug ==
    [][ \A p \in DOMAIN procs :
          (/\ procs[p].pc = "write" /\ procs[p].op = "resave"
           /\ procs'[p].pc = "done")
             => \A r \in products :
                   (/\ r.pk = procs[p].inst.pk
                    /\ r.slug # <<>> /\ procs[p].slug_in = r.slug)
                      => \E q \in products' : q.pk = r.pk /\ q.slug = r.slug ]_vars

\* a product was re-saved with its slug set, and deriving the slug from its
\* name would have given another one
C3_Witness ==
    /\ JustReturned
    /\ last.op = "resave" /\ procs[last.p].slug_in # <<>>
    /\ ProductRow(procs[last.p].inst.pk).slug = procs[last.p].slug_in
    /\ slugify(procs[last.p].inst.name) # procs[last.p].slug_in
    /\ slugify(procs[last.p].inst.name) \notin
          { r.slug : r \in { x \in products : x.pk # procs[last.p].inst.pk } }
    /\ Cardinality(products) >= 2

(***************************************************************************)
(* Properties of concurrent Product.save (SpecRace)                        *)
(***************************************************************************)
\* the slugs held by stored products other than the one with primary key pk
SlugsOfOthers(pk) == { r.slug : r \in { x \in products : x.pk # pk } }

\* the i-th candidate of the probe: base, base-1, base-2, ...
Candidate(base, i) ==
    IF i = 1 THEN base ELSE base \o <<"-">> \o Decimal(i - 1)

\* C11 as stated, read when save() returns: a product saved with an empty
\* slug is stored with base = slugify(name) when no other stored product
\* holds base, and otherwise with base-k for the smallest k >= 1 such that no
\* other stored product holds base-k.
C11_SmallestFreeSuffix ==
    (JustReturned /\ procs[last.p].slug_in = <<>>) =>
        LET row == ProductRow(procs[last.p].inst.pk)
            base == slugify(row.name)
            held == SlugsOfOthers(row.pk)
        IN  IF base \notin held THEN row.slug = base
            ELSE \E k \in 1..(Cardinality(products) + 1) :
                    /\ row.slug = base \o <<"-">> \o Decimal(k)
                    /\ row.slug \notin held
                    /\ \A j \in 1..(k - 1) :
                          (base \o <<"-">> \o Decimal(j)) \in held

\* C11 (amended): a product saved with an empty slug is stored with the first
\* of the candidates base, base-1, base-2, ... that no other stored product
\* held at the instant that candidate was probed: every earlier candidate was
\* held by another product when it was probed; the product's own row is not
\* among the others.
C11_FirstFreeWhenProbed ==
    (JustReturned /\ procs[last.p].slug_in = <<>>) =>
        LET pr == procs[last.p]
            row == ProductRow(pr.inst.pk)
            n == Len(pr.seen)
        IN  /\ n >= 1
            /\ row.slug = Candidate(slugify(row.name), n)
            /\ ~pr.seen[n]
            /\ \A i \in 1..(n - 1) : pr.seen[i]

\* a stored product holding "ap-1" was re-saved with its slug cleared while
\* another product holds "ap", and was given "ap-1", its own slug, again
C11_Witness ==
    /\ JustReturned
    /\ last.op = "resave" /\ procs[last.p].slug_in = <<>>
    /\ procs[last.p].same_slug
    /\ procs[last.p].seen = <<TRUE, FALSE>>
    /\ ProductRow(procs[last.p].inst.pk).slug = <<"a", "p", "-", "1">>
    /\ <<"a", "p">> \in SlugsOfOthers(procs[last.p].inst.pk)

\* C4: a row write made while another row holds the instance's slug ends
\* with the storage layer's uniqueness error and stores nothing, any other
\* row write stores the row and returns; so of the concurrent saves that
\* passed the probe with one candidate, the first to write stores it and a
\* later one raises while that slug is held by another row.  A raised save
\* takes no further step, and no two stored rows ever share a slug.
C4_RaceLoserRaises ==
    /\ [](/\ \A r1, r2 \in products : r1.slug = r2.slug => r1 = r2
          /\ \A p \in Procs :
                (last.op \in {"create", "resave"} /\ last.p = p) =>
                   /\ last.ok => /\ procs[p].pc = "done"
                                 /\ procs[p].inst \in products
                   /\ ~last.ok =>
                         /\ procs[p].pc = "raised"
                         /\ procs[p].inst.slug \in SlugsOfOthers(procs[p].inst.pk)
                         /\ procs[p].inst.pk = NoPk =>
                               \A r \in products : r.sku # procs[p].inst.sku)
    /\ [][\A p \in Procs :
             /\ procs[p].pc = "raised" => procs'[p] = procs[p]
             /\ (procs[p].pc = "write" /\ procs'[p] # procs[p]) =>
                   IF procs[p].inst.slug \in SlugsOfOthers(procs[p].inst.pk)
                   THEN procs'[p].pc = "raised" /\ products' = products
                   ELSE procs'[p].pc = "done" /\ procs'[p].inst \in products']_vars

\* two saves of new products with names that slugify alike both found "ap"
\* held and "ap-1" free before either wrote: one stored "ap-1", the other
\* raised
C4_Witness ==
    \E p, q \in Procs :
        /\ procs[p].pc = "done" /\ procs[q].pc = "raised"
        /\ procs[p].op = "create" /\ procs[q].op = "create"
        /\ procs[p].seen = <<TRUE, FALSE>> /\ procs[q].seen = <<TRUE, FALSE>>
        /\ procs[p].inst.slug = <<"a", "p", "-", "1">>
        /\ procs[q].inst.slug = <<"a", "p", "-", "1">>
        /\ procs[p].inst \in products

(***************************************************************************)
(* Properties of the user manager (SpecUsers)                              *)
(***************************************************************************)
UserRow(pk) == CHOOSE u \in users : u.pk = pk

SuperuserFlagErrors ==
    { "Superuser must have is_staff=True.",
      "Superuser must have is_superuser=True." }

\* C8: create_superuser raises one of its two flag errors and stores no row
\* exactly when the caller passed is_staff or is_superuser other than True;
\* otherwise the call is create_user's (its email error or the storage error
\* at most), and a row it stores has is_staff and is_superuser True.
C8_SuperuserFlags ==
    /\ [](last.op = "create_superuser" =>
            /\ last.explicit_non_true <=> last.err \in SuperuserFlagErrors
            /\ last.explicit_non_true => ~last.ok /\ last.pk = NoPk
            /\ last.ok => /\ UserRow(last.pk).is_staff = "True"
                          /\ UserRow(last.pk).is_superuser = "True"
            /\ ~last.explicit_non_true =>
                  (last.ok <=> ~last.empty_email /\ last.err # "IntegrityError"))
    /\ [][(last'.op = "create_superuser" /\ ~last'.ok) => users' = users]_vars

\* a superuser is stored, and the last create_superuser call, which passed a
\* flag other than True, raised
C8_Witness ==
    /\ last.op = "create_superuser" /\ last.explicit_non_true /\ ~last.ok
    /\ \E u \in users : u.is_staff = "True" /\ u.is_superuser = "True"

\* C9: create_user and create_superuser called with no email or an empty one
\* raise and leave the stored users unchanged, and no stored user has an
\* empty email.
C9_EmailRequired ==
    /\ [](/\ \A u \in users : u.email # <<>>
          /\ (last.op \in {"create_user", "create_superuser"}
              /\ last.empty_email)
                => /\ ~last.ok /\ last.pk = NoPk
                   /\ last.err \in SuperuserFlagErrors
                                   \cup {"Users must have an email address"}
                   /\ (last.op = "create_user"
                         => last.err = "Users must have an email address"))
    /\ [][(last'.op \in {"create_user", "create_superuser"} /\ ~last'.ok)
             => users' = users]_vars

\* a user is stored, and the last create_user call, without an email, raised
C9_Witness ==
    /\ last.op = "create_user" /\ last.empty_email /\ ~last.ok
    /\ last.err = "Users must have an email address"
    /\ users # {}

(***************************************************************************)
(* Properties of Category.save (SpecCategory)                              *)
(***************************************************************************)
CategorySaves == { "create_category", "resave_category" }

\* C5: a Category saved with an empty slug is stored with slugify(name) and
\* no suffix; when another stored category holds that slug the save raises
\* the storage layer's uniqueness error and the stored categories are
\* unchanged; no two stored categories share a slug.
C5_CategorySlugNoSuffix ==
    /\ [](/\ \A c1, c2 \in categories : c1.slug = c2.slug => c1 = c2
          /\ (last.op \in CategorySaves /\ last.ok /\ last.slug_in = <<>>)
                => \E c \in categories :
                      c.pk = last.pk /\ c.slug = slugify(last.name))
    /\ [][(/\ last'.op \in CategorySaves
           /\ last'.slug_in = <<>>
           /\ \E c \in categories :
                 c.pk # last'.pk /\ c.slug = slugify(last'.name))
             => /\ ~last'.ok
                /\ last'.err = "IntegrityError"
                /\ categories' = categories]_vars

\* a new category with an empty slug and a fresh name was refused because a
\* stored category of another name holds slugify(name)
C5_Witness ==
    /\ last.op = "create_category" /\ ~last.ok /\ last.slug_in = <<>>
    /\ last.err = "IntegrityError"
    /\ \E c \in categories : c.slug = slugify(last.name)
    /\ \A c \in categories : c.name # last.name

(***************************************************************************)
(* Properties of deletion (SpecCascade)                                    *)
(***************************************************************************)
\* C10: no stored row references a row that is not stored: every category's
\* parent, every product's seller profile and category, every image's product
\* and every profile's user is stored.
C10_NoDanglingReference ==
    /\ \A c \in categories :
          c.parent = NoPk \/ \E d \in categories : d.pk = c.parent
    /\ \A r \in products :
          /\ \E x \in sellers : x.user = r.seller
          /\ \E c \in categories : c.pk = r.category
    /\ \A i \in images : \E r \in products : r.pk = i.product
    /\ \A x \in sellers : \E u \in users : u.pk = x.user
    /\ \A x \in buyers : \E u \in users : u.pk = x.user

\* deleting one category removed three: it, its subcategory and that one's
\* subcategory, with a product of one of them and the product's image
C10_Witness ==
    /\ last.op = "delete_category"
    /\ last.removed.categories = 3
    /\ last.removed.products >= 1
    /\ last.removed.images >= 1

(***************************************************************************)
(* Properties of the derived prices (SpecPrice)                            *)
(***************************************************************************)
\* C6: final_price is discount_price whenever discount_price is not None,
\* a discount_price of 0 or above the price included, and price otherwise.
C6_FinalPriceWhenSet ==
    last.op = "final_price" =>
        last.value = IF discount_price # None THEN ValueOf(discount_price)
                     ELSE price

\* C7: discount_percentage is ((price - discount_price) / price) * 100, at
\* two decimal places, whenever discount_price is not None (0 included) and
\* price > 0, and 0 otherwise.
C7_DiscountPercentageWhenSet ==
    last.op = "discount_percentage" =>
        last.value = IF discount_price # None /\ price > 0
                     THEN RoundHalfEven((price - ValueOf(discount_price)) * 10000,
                                        price)
                     ELSE 0

====
